---- MODULE Spec2Model ----
(***************************************************************************)
(* Model of inventory_system.py: the module-level stock_data dictionary,   *)
(* the operations add_item, remove_item, get_qty, load_data and save_data, *)
(* the file they persist to, and the outcome of the most recent call.      *)
(***************************************************************************)
EXTENDS Integers, Naturals, Sequences, FiniteSets, TLC

VARIABLES stock_data, fs, call, saved

vars == <<stock_data, fs, call, saved>>

(***************************************************************************)
(* Bounds.                                                                 *)
(***************************************************************************)
\* Largest quantity add_item / remove_item may produce in the model.
MaxQty == 2

\* Quantities the model's dict holds after add_item / remove_item, and the
\* integers callers pass; one negative value stands for the negative ones.
QtyRange == (0 - 1)..MaxQty

\* Item names passed by callers; "" is the empty (falsy) name.
Items == {"", "a", "b"}

\* The path used by load_data / save_data (their default argument).
Paths == {"inventory.json"}

(***************************************************************************)
(* Decimal text <-> integers, as json.dump writes and int() / json.load    *)
(* read them.  Text is a sequence of one-character strings.                *)
(***************************************************************************)
Digits == <<"0", "1", "2", "3", "4", "5", "6", "7", "8", "9">>

DigitSet == {Digits[i] : i \in 1..10}

DigitVal(c) == (CHOOSE i \in 1..10 : Digits[i] = c) - 1

IsDigits(s) == Len(s) > 0 /\ \A i \in 1..Len(s) : s[i] \in DigitSet

RECURSIVE NatToStr(_)
NatToStr(n) ==
    IF n < 10 THEN <<Digits[n + 1]>>
    ELSE NatToStr(n \div 10) \o <<Digits[(n % 10) + 1]>>

IntToStr_dropsign(n) == IF n < 0 THEN NatToStr(-n) ELSE NatToStr(n)

\* int.__repr__, used by the JSON encoder for integer values.
IntToStr(n) == IF n < 0 THEN <<"-">> \o NatToStr(-n) ELSE NatToStr(n)

RECURSIVE StrToNat(_)
StrToNat(s) ==
    IF Len(s) = 0 THEN 0
    ELSE StrToNat(SubSeq(s, 1, Len(s) - 1)) * 10 + DigitVal(s[Len(s)])

\* [sign] digits, the integer syntax shared by int(str) and JSON numbers
\* (JSON has no leading "+"; plusOk says whether one is accepted).
IsIntText(s, plusOk) ==
    /\ Len(s) > 0
    /\ IF s[1] = "-" \/ (plusOk /\ s[1] = "+")
       THEN IsDigits(SubSeq(s, 2, Len(s)))
       ELSE IsDigits(s)

StrToInt(s) ==
    IF s[1] = "-" THEN 0 - StrToNat(SubSeq(s, 2, Len(s)))
    ELSE IF s[1] = "+" THEN StrToNat(SubSeq(s, 2, Len(s)))
    ELSE StrToNat(s)

\* Position of the first occurrence of character c in s, 0 if none.
Find(s, c) ==
    IF \E i \in 1..Len(s) : s[i] = c
    THEN CHOOSE i \in 1..Len(s) : s[i] = c /\ \A j \in 1..(i - 1) : s[j] # c
    ELSE 0

(***************************************************************************)
(* Python values reaching int(): [ty, n, s].                               *)
(*   int / bool : n is the value.                                          *)
(*   float      : s = <<>> for a finite float whose truncation toward      *)
(*                zero is n (int() discards the fraction), s = "inf" or    *)
(*                "nan" otherwise.                                         *)
(*   str        : s is the text.                                           *)
(*   NoneType, list, dict : no payload (int() rejects them by type).       *)
(***************************************************************************)
PyInteger(n) == [ty |-> "int", n |-> n, s |-> <<>>]
PyBool(b) == [ty |-> "bool", n |-> IF b THEN 1 ELSE 0, s |-> <<>>]
PyFloat(n) == [ty |-> "float", n |-> n, s |-> <<>>]
PyInf == [ty |-> "float", n |-> 0, s |-> <<"i", "n", "f">>]
PyNan == [ty |-> "float", n |-> 0, s |-> <<"n", "a", "n">>]
PyStr(s) == [ty |-> "str", n |-> 0, s |-> s]
PyNone == [ty |-> "NoneType", n |-> 0, s |-> <<>>]
PyList == [ty |-> "list", n |-> 0, s |-> <<>>]
PyDict == [ty |-> "dict", n |-> 0, s |-> <<>>]

Ok(n) == [ok |-> TRUE, n |-> n, exc |-> "none"]
Raise(e) == [ok |-> FALSE, n |-> 0, exc |-> e]

int_acceptall(v) == Ok(v.n)

\* The builtin int(v): the integer, or the exception it raises.
int(v) ==
    CASE v.ty \in {"int", "bool"} -> Ok(v.n)
      [] v.ty = "float" ->
            IF v.s = <<>> THEN Ok(v.n)
            ELSE IF v.s = PyInf.s THEN Raise("OverflowError")
            ELSE Raise("ValueError")
      [] v.ty = "str" ->
            IF IsIntText(v.s, TRUE) THEN Ok(StrToInt(v.s))
            ELSE Raise("ValueError")
      [] OTHER -> Raise("TypeError")

(***************************************************************************)
(* stock_data: a dict, kept as the sequence of its <<key, value>> pairs in *)
(* insertion order, keys distinct.                                         *)
(***************************************************************************)
Keys(d) == {d[i][1] : i \in 1..Len(d)}

Index(d, k) == CHOOSE i \in 1..Len(d) : d[i][1] = k

\* dict.get(k, default)
Get(d, k, default) == IF k \in Keys(d) THEN d[Index(d, k)][2] ELSE default

\* d[k] = v
Put(d, k, v) ==
    IF k \in Keys(d)
    THEN [d EXCEPT ![Index(d, k)] = <<k, v>>]
    ELSE Append(d, <<k, v>>)

\* del d[k]
Del(d, k) ==
    LET i == Index(d, k)
    IN  SubSeq(d, 1, i - 1) \o SubSeq(d, i + 1, Len(d))

\* The mapping a dict denotes (dict equality ignores insertion order).
AsMap(d) == [k \in Keys(d) |-> Get(d, k, 0)]

get_qty_of(d, item) == Get(d, item, 0)

\* get_qty(item) on the module-level dict.
get_qty(item) == get_qty_of(stock_data, item)

(***************************************************************************)
(* JSON documents as json.load sees them: [t, lit, members].               *)
(*   number : lit is the literal's text;  string : lit is the text;        *)
(*   object : members is the sequence of <<key, value>> in file order      *)
(*            (keys may repeat);  true / false / null / array: no payload  *)
(*            (an array's or nested object's content never reaches int()). *)
(***************************************************************************)
JNum(lit) == [t |-> "number", lit |-> lit, members |-> <<>>]
JStr(lit) == [t |-> "string", lit |-> lit, members |-> <<>>]
JTrue == [t |-> "true", lit |-> <<>>, members |-> <<>>]
JNull == [t |-> "null", lit |-> <<>>, members |-> <<>>]
JArray == [t |-> "array", lit |-> <<>>, members |-> <<>>]
JObject(members) == [t |-> "object", lit |-> <<>>, members |-> members]

RECURSIVE Pow10(_)
Pow10(e) == IF e = 0 THEN 1 ELSE 10 * Pow10(e - 1)

\* float(text) for a JSON number with a fraction and/or exponent.  A literal
\* above the largest double (about 1.8e308) becomes inf.  The finite case
\* keeps only the truncation toward zero, exact for literals that have no
\* exponent, or a non-negative exponent and no fraction.
FloatOfText(lit) ==
    LET e     == Find(lit, "e")
        mant  == IF e = 0 THEN lit ELSE SubSeq(lit, 1, e - 1)
        exp   == IF e = 0 THEN 0 ELSE StrToInt(SubSeq(lit, e + 1, Len(lit)))
        dot   == Find(mant, ".")
        whole == IF dot = 0 THEN mant ELSE SubSeq(mant, 1, dot - 1)
        w     == StrToInt(whole)
        mag   == Len(NatToStr(IF w < 0 THEN 0 - w ELSE w)) - 1 + exp
    IN  IF w # 0 /\ mag > 308 THEN PyInf
        ELSE IF exp <= 0 THEN PyFloat(w)
        ELSE PyFloat(w * Pow10(exp))

\* json.load's decoding of one JSON value into a Python value.
JsonValue(j) ==
    CASE j.t = "number" ->
            IF IsIntText(j.lit, FALSE) THEN PyInteger(StrToInt(j.lit))
            ELSE FloatOfText(j.lit)
      [] j.t = "string" -> PyStr(j.lit)
      [] j.t = "true"   -> PyBool(TRUE)
      [] j.t = "false"  -> PyBool(FALSE)
      [] j.t = "null"   -> PyNone
      [] j.t = "array"  -> PyList
      [] OTHER          -> PyDict

\* json.load's dict for a JSON object: a repeated key keeps its first
\* position and its last value.
RECURSIVE JsonDict(_)
JsonDict(members) ==
    IF Len(members) = 0 THEN <<>>
    ELSE LET m == members[Len(members)]
         IN  Put(JsonDict(SubSeq(members, 1, Len(members) - 1)),
                 m[1], JsonValue(m[2]))

\* json.dump(stock_data, f, indent=2): one member per key, in dict order,
\* each value written as its decimal literal.
JsonDump(d) ==
    JObject([i \in 1..Len(d) |-> <<d[i][1], JNum(IntToStr(d[i][2]))>>])

(***************************************************************************)
(* The file at a path: [kind, doc].                                        *)
(*   missing     : no such file                                            *)
(*   denied      : open() fails with PermissionError (read and write)      *)
(*   undecodable : bytes that are not UTF-8                                *)
(*   malformed   : text that is not a JSON document (also an empty or      *)
(*                 partially written file)                                 *)
(*   json        : text that parses to doc                                 *)
(***************************************************************************)
File(kind) == [kind |-> kind, doc |-> JNull]
JsonFile(doc) == [kind |-> "json", doc |-> doc]

(***************************************************************************)
(* Operations.  Each returns [store, outcome, logs]: the dict afterwards,  *)
(* "returned" or the name of the exception that reaches the caller, and    *)
(* the levels of the log records emitted.                                  *)
(***************************************************************************)
Result(store, outcome, logs) ==
    [store |-> store, outcome |-> outcome, logs |-> logs]

Caught == {"TypeError", "ValueError"}

add_item_overwrite(store, item, qty) ==
    IF item = "" THEN Result(store, "returned", <<"warning">>)
    ELSE LET c == int(qty)
         IN  IF ~c.ok
             THEN IF c.exc \in Caught
                  THEN Result(store, "returned", <<"error">>)
                  ELSE Result(store, c.exc, <<>>)
             ELSE Result(Put(store, item, c.n), "returned", <<"info">>)

add_item(store, item, qty) ==
    IF item = "" THEN Result(store, "returned", <<"warning">>)
    ELSE LET c == int(qty)
         IN  IF ~c.ok
             THEN IF c.exc \in Caught
                  THEN Result(store, "returned", <<"error">>)
                  ELSE Result(store, c.exc, <<>>)
             ELSE Result(Put(store, item, Get(store, item, 0) + c.n),
                         "returned", <<"info">>)

remove_item(store, item, qty) ==
    IF item = "" THEN Result(store, "returned", <<"warning">>)
    ELSE LET c == int(qty)
             current == Get(store, item, 0)
         IN  IF ~c.ok
             THEN IF c.exc \in Caught
                  THEN Result(store, "returned", <<"error">>)
                  ELSE Result(store, c.exc, <<>>)
             ELSE IF current = 0
             THEN Result(store, "returned", <<"warning">>)
             ELSE IF c.n >= current
             THEN Result(Del(store, item), "returned", <<"info">>)
             ELSE Result(Put(store, item, current - c.n),
                         "returned", <<"info">>)

\* The loop of load_data over data.items(): [cleaned, logs, exc], exc being
\* the exception int() raised that the loop's except clause does not catch.
RECURSIVE Clean(_)
Clean(items) ==
    IF Len(items) = 0
    THEN [cleaned |-> <<>>, logs |-> <<>>, exc |-> "none"]
    ELSE LET r  == Clean(SubSeq(items, 1, Len(items) - 1))
             kv == items[Len(items)]
             c  == int(kv[2])
         IN  IF r.exc # "none" THEN r
             ELSE IF c.ok THEN [r EXCEPT !.cleaned = Put(@, kv[1], c.n)]
             ELSE IF c.exc \in Caught
             THEN [r EXCEPT !.logs = Append(@, "warning")]
             ELSE [r EXCEPT !.exc = c.exc]

\* dict.update(other) for a dict given as its pairs.
RECURSIVE Update(_, _)
Update(d, other) ==
    IF Len(other) = 0 THEN d
    ELSE LET kv == other[Len(other)]
         IN  Put(Update(d, SubSeq(other, 1, Len(other) - 1)), kv[1], kv[2])

load_rejected_clears(store) == Result(<<>>, "returned", <<"error">>)

\* load_data's two "log an error and give up" exits: data is not a dict,
\* and json.JSONDecodeError.
load_rejected(store) == Result(store, "returned", <<"error">>)

load_data(store, f) ==
    CASE f.kind = "missing" -> Result(store, "returned", <<"warning">>)
      [] f.kind = "denied" -> Result(store, "PermissionError", <<>>)
      [] f.kind = "undecodable" -> Result(store, "UnicodeDecodeError", <<>>)
      [] f.kind = "malformed" -> load_rejected(store)
      [] OTHER ->
            IF f.doc.t # "object" THEN load_rejected(store)
            ELSE LET r == Clean(JsonDict(f.doc.members))
                 IN  IF r.exc # "none" THEN Result(store, r.exc, r.logs)
                     ELSE Result(Update(<<>>, r.cleaned), "returned",
                                 Append(r.logs, "info"))

\* What the operating system does to a write: it succeeds, or it fails
\* part-way (disk full) after open() has truncated the file.
IoOutcomes == {"ok", "ENOSPC"}

\* save_data: [file, outcome, logs], file being the file afterwards.
save_data(store, f, io) ==
    IF f.kind = "denied"
    THEN [file |-> f, outcome |-> "returned", logs |-> <<"error">>]
    ELSE IF io # "ok"
    THEN [file |-> File("malformed"), outcome |-> "returned",
          logs |-> <<"error">>]
    ELSE [file |-> JsonFile(JsonDump(store)), outcome |-> "returned",
          logs |-> <<"info">>]

(***************************************************************************)
(* Inputs.                                                                 *)
(***************************************************************************)
\* Quantities callers pass: integers, the strings "1" and "x", None, the
\* floats 1.5 and inf.
QtyInputs ==
    {PyInteger(n) : n \in QtyRange}
        \cup {PyStr(<<"1">>), PyStr(<<"x">>), PyNone, PyFloat(1), PyInf}

\* Values a file written by someone else may hold for a key.
JsonVals ==
    {JNum(<<"2">>), JNum(<<"-", "1">>), JNum(<<"0">>),
     JNum(<<"1", ".", "5">>), JNum(<<"-", "1", ".", "5">>),
     JNum(<<"1", "e", "9", "9", "9">>),
     JStr(<<"2">>), JStr(<<"x">>), JTrue, JNull, JArray}

\* Files that may be on disk when the program starts.
InitialFiles ==
    {File("missing"), File("denied"), File("undecodable"), File("malformed"),
     JsonFile(JArray), JsonFile(JNum(<<"2">>)), JsonFile(JObject(<<>>)),
     JsonFile(JObject(<<<<"b", JNum(<<"1">>)>>, <<"a", JNum(<<"2">>)>>,
                        <<"b", JStr(<<"x">>)>>>>))}
        \cup {JsonFile(JObject(<<<<"a", v>>, <<"b", JNum(<<"2">>)>>>>)) :
                v \in JsonVals}

InBound(d) == \A i \in 1..Len(d) : d[i][2] \in QtyRange

(***************************************************************************)
(* State.                                                                  *)
(*   stock_data : the module-level dict                                    *)
(*   fs         : the file at each path                                    *)
(*   call       : the most recent call: its arguments, the dict and file   *)
(*                it started from, how it ended and what it logged         *)
(*   saved      : the dict contents written by the last save_data that     *)
(*                completed, while the file still holds them               *)
(***************************************************************************)
NoCall ==
    [op |-> "none", item |-> "", qty |-> PyNone, path |-> "",
     pre |-> <<>>, prefile |-> File("missing"),
     outcome |-> "returned", logs |-> <<>>]

NoSave == [valid |-> FALSE, store |-> <<>>]

Init ==
    /\ stock_data = <<>>
    /\ fs \in [Paths -> InitialFiles]
    /\ call = NoCall
    /\ saved = NoSave

CallAddItem ==
    \E item \in Items, qty \in QtyInputs :
        LET r == add_item(stock_data, item, qty)
        IN  /\ InBound(r.store)
            /\ stock_data' = r.store
            /\ call' = [op |-> "add_item", item |-> item, qty |-> qty,
                        path |-> "", pre |-> stock_data,
                        prefile |-> File("missing"),
                        outcome |-> r.outcome, logs |-> r.logs]
            /\ UNCHANGED <<fs, saved>>

CallRemoveItem ==
    \E item \in Items, qty \in QtyInputs :
        LET r == remove_item(stock_data, item, qty)
        IN  /\ InBound(r.store)
            /\ stock_data' = r.store
            /\ call' = [op |-> "remove_item", item |-> item, qty |-> qty,
                        path |-> "", pre |-> stock_data,
                        prefile |-> File("missing"),
                        outcome |-> r.outcome, logs |-> r.logs]
            /\ UNCHANGED <<fs, saved>>

CallLoadData ==
    \E path \in Paths :
        LET r == load_data(stock_data, fs[path])
        IN  /\ stock_data' = r.store
            /\ call' = [op |-> "load_data", item |-> "", qty |-> PyNone,
                        path |-> path, pre |-> stock_data,
                        prefile |-> fs[path],
                        outcome |-> r.outcome, logs |-> r.logs]
            /\ UNCHANGED <<fs, saved>>

CallSaveData ==
    \E path \in Paths, io \in IoOutcomes :
        LET r == save_data(stock_data, fs[path], io)
        IN  /\ fs' = [fs EXCEPT ![path] = r.file]
            /\ call' = [op |-> "save_data", item |-> "", qty |-> PyNone,
                        path |-> path, pre |-> stock_data,
                        prefile |-> fs[path],
                        outcome |-> r.outcome, logs |-> r.logs]
            /\ saved' = IF r.logs = <<"info">>
                        THEN [valid |-> TRUE, store |-> stock_data]
                        ELSE IF r.file = fs[path] THEN saved
                        ELSE NoSave
            /\ UNCHANGED stock_data

Next == CallAddItem \/ CallRemoveItem \/ CallLoadData \/ CallSaveData

Spec == Init /\ [][Next]_vars

(***************************************************************************)
(* Properties.                                                             *)
(***************************************************************************)
IsLoad == call.op = "load_data"

\* Quantities among QtyInputs that Python's int() does not accept.
BadQty == {PyStr(<<"x">>), PyNone, PyInf}

\* C1: every key of the store has a quantity strictly greater than 0, in
\* every state reachable by add, remove and load calls.
C1_AllQuantitiesPositive ==
    \A i \in 1..Len(stock_data) : stock_data[i][2] > 0

\* C2: load on a path where no file exists leaves the store empty, whatever
\* it held before.
C2_MissingFileEmptiesStore ==
    (IsLoad /\ call.prefile.kind = "missing") => stock_data = <<>>

\* C3: load of a file whose content is not valid JSON, or whose top-level
\* JSON value is not an object, leaves the store exactly as it was.
C3_RejectedLoadKeepsStore ==
    (IsLoad /\ (\/ call.prefile.kind \in {"malformed", "undecodable"}
                \/ (call.prefile.kind = "json"
                        /\ call.prefile.doc.t # "object")))
        => stock_data = call.pre

C3_Witness ==
    /\ IsLoad
    /\ call.prefile.kind = "malformed"
    /\ Len(call.pre) = 2
    /\ Len(stock_data) = 2

\* C4: a load of the file that a completed save wrote returns normally and
\* yields exactly the mapping that existed at save time, whatever the store
\* held when load was called.
C4_RoundTrip ==
    (IsLoad /\ saved.valid)
        => /\ call.outcome = "returned"
           /\ AsMap(stock_data) = AsMap(saved.store)

C4_Witness ==
    /\ IsLoad
    /\ saved.valid
    /\ Len(saved.store) = 2
    /\ \E i \in 1..2 : saved.store[i][2] < 0
    /\ \E i \in 1..2 : saved.store[i][2] > 1
    /\ AsMap(call.pre) # AsMap(saved.store)
    /\ call.pre # <<>>

\* C5: when item is in the store with quantity c and remove(item, qty) is
\* called with an integer qty >= c, item is no longer a key afterwards and
\* get_quantity(item) = 0; remove never leaves a negative quantity.
C5_OverRemovalDeletes ==
    (/\ call.op = "remove_item"
     /\ call.item \in Keys(call.pre)
     /\ call.qty.ty = "int"
     /\ call.qty.n >= get_qty_of(call.pre, call.item))
        => /\ call.item \notin Keys(stock_data)
           /\ get_qty(call.item) = 0
           /\ \A i \in 1..Len(stock_data) : stock_data[i][2] >= 0

\* C6: add or remove with an empty item, or with a qty that cannot be
\* coerced to an integer, leaves the whole store unchanged.
C6_RejectedCallKeepsStore ==
    (/\ call.op \in {"add_item", "remove_item"}
     /\ (call.item = "" \/ call.qty \in BadQty))
        => stock_data = call.pre

C6_Witness ==
    /\ call.op = "add_item"
    /\ call.item = "a"
    /\ call.qty = PyStr(<<"x">>)
    /\ call.outcome = "returned"
    /\ call.logs = <<"error">>
    /\ Keys(stock_data) = {"b"}

\* C7: load and save return normally, after logging, for every failure of
\* reading, parsing or writing the file.
C7_NoFailureReachesCaller ==
    call.op \in {"load_data", "save_data"}
        => (call.outcome = "returned" /\ Len(call.logs) > 0)

\* C8: after a load of a file holding a JSON object, the store's keys are
\* exactly the file's keys whose value coerces to an integer, each mapped to
\* the coerced integer; an entry that fails coercion is dropped without
\* aborting the load, and nothing else of the previous store survives.
C8_LoadReplacesStore ==
    (IsLoad /\ call.prefile.kind = "json" /\ call.prefile.doc.t = "object")
        => LET d    == JsonDict(call.prefile.doc.members)
               good == {k \in Keys(d) : int(Get(d, k, PyNone)).ok}
           IN  /\ call.outcome = "returned"
               /\ AsMap(stock_data)
                    = [k \in good |-> int(Get(d, k, PyNone)).n]

\* C9: after add(item, qty) with a non-empty item and an integer qty,
\* get_quantity(item) is its previous value plus qty, the entry exists, and
\* the quantity of every other item is unchanged.
C9_AddIncrements ==
    (call.op = "add_item" /\ call.item # "" /\ call.qty.ty = "int")
        => /\ get_qty(call.item)
                = get_qty_of(call.pre, call.item) + call.qty.n
           /\ Keys(stock_data) = Keys(call.pre) \cup {call.item}
           /\ \A k \in (Items \cup Keys(call.pre)) \ {call.item} :
                get_qty(k) = get_qty_of(call.pre, k)

C9_Witness ==
    /\ call.op = "add_item"
    /\ call.item = "a"
    /\ call.qty = PyInteger(1)
    /\ get_qty_of(call.pre, "a") = 1
    /\ get_qty_of(call.pre, "b") = 2
    /\ get_qty("a") = 2

\* C10: remove never increases stock: get_quantity(item) after
\* remove(item, qty) is at most what it was before, for every integer qty.
C10_RemoveNeverIncreases ==
    (call.op = "remove_item" /\ call.qty.ty = "int")
        => get_qty(call.item) <= get_qty_of(call.pre, call.item)

====
